---- MODULE Spec2Model ----
(***************************************************************************)
(* Model of concurrency-examples:                                          *)
(*   - the four matrix-multiplication kernels of src/lib.rs                *)
(*     (matrix_multiply, matrix_multiply_rayon, matrix_multiply_avx,       *)
(*     matrix_multiply_avx_rayon): specification Spec;                     *)
(*   - shared_mem_mutex and shared_mem_dashmap of src/lib.rs:              *)
(*     specification SpecCounter;                                          *)
(*   - the Ping/Pong actors of src/actors.rs: SpecActors (the handlers in   *)
(*     any order), SpecTestRuntime and FairSpecTestRuntime (the test       *)
(*     ping_pong_works on its single-threaded runtime);                    *)
(*   - relaxed_ordering and acqrel_relaxed_ordering of                     *)
(*     src/memory_ordering.rs: SpecRelaxed, SpecAcqRel.                    *)
(* Each specification runs one of these programs and leaves the variables  *)
(* of the others at their idle values.                                     *)
(*                                                                         *)
(* Buffers are 0-indexed in the source; here a buffer is a sequence and    *)
(* the element at source index x is buf[x + 1] (operator At).  Values are  *)
(* integers: the inputs are integer-valued and every product and partial   *)
(* sum stays far below 2^24, so f32 arithmetic on them is exact and is     *)
(* integer arithmetic.                                                     *)
(***************************************************************************)
EXTENDS Integers, Sequences, FiniteSets, TLC

VARIABLES args, kernel, nWorkers, pc, result, units, access, writers,
          terms, callNo, prev

matVars == <<args, kernel, nWorkers, pc, result, units, access, writers,
             terms, callNo, prev>>

(* shared_mem_mutex / shared_mem_dashmap *)
VARIABLES cfn, count, holder, tpc, tnum, mpc, mi, ret

cntVars == <<cfn, count, holder, tpc, tnum, mpc, mi, ret>>

(* PingActor, PongActor and the test ping_pong_works *)
VARIABLES counter, pong, pingBox, pongBox, tst, reply, pingsRecv, sentQuiet

(* the single-threaded runtime of #[actix_rt::test] *)
VARIABLES phase, runq, running, budget, woken, timer

rtVars == <<phase, runq, running, budget, woken, timer>>

actVars == <<counter, pong, pingBox, pongBox, tst, reply, pingsRecv,
             sentQuiet, rtVars>>

(* relaxed_ordering / acqrel_relaxed_ordering and their tests *)
VARIABLES mofn, mem, view, mopc, reg, seen, runs

moVars == <<mofn, mem, view, mopc, reg, seen, runs>>

vars == <<matVars, cntVars, actVars, moVars>>

(***************************************************************************)
(* Bounds of the explored inputs.                                          *)
(***************************************************************************)
MaxM == 2
MaxN == 3
MaxFullChunks == 1
MaxRem == 2
MaxStart == 1
MaxWorkers == 2
MaxCalls == 2

(* width of f32x8 *)
LANES == 8

Kernels == {"matrix_multiply", "matrix_multiply_rayon",
            "matrix_multiply_avx", "matrix_multiply_avx_rayon"}
RayonKernels == {"matrix_multiply_rayon", "matrix_multiply_avx_rayon"}
AvxKernels == {"matrix_multiply_avx", "matrix_multiply_avx_rayon"}

Min(x, y) == IF x <= y THEN x ELSE y

(* buf[x] of the source, x counted from 0 *)
At(buf, x) == buf[x + 1]

InBounds(buf, x) == x >= 0 /\ x < Len(buf)

(* vec![0.0; len] *)
Zeros(len) == [x \in 1..len |-> 0]

(* what a call yields: the returned buffer, or a panic *)
Ok(buf) == [panic |-> FALSE, value |-> buf]
PANIC == [panic |-> TRUE, value |-> <<>>]

(***************************************************************************)
(* Pieces of the loop bodies.                                              *)
(***************************************************************************)

(* sum += a[i * n + k] * b[k * p + j] *)
DotStepAssign(a, b, n, p, i, j, k, sum) ==
    At(a, i * n + k) * At(b, k * p + j)
DotStepDescending(a, b, n, p, i, j, k, sum) ==
    sum + At(a, i * n + (n - 1 - k)) * At(b, (n - 1 - k) * p + j)
DotStep(a, b, n, p, i, j, k, sum) ==
    sum + At(a, i * n + k) * At(b, k * p + j)

(* the two index expressions of that statement are inside their buffers *)
DotInBounds(a, b, n, p, i, j, k) ==
    InBounds(a, i * n + k) /\ InBounds(b, k * p + j)

(* let remaining = (p - j).min(8) *)
RemainingAll(p, j) == LANES
Remaining(p, j) == Min(p - j, LANES)

(* first index of chunk i of par_chunks_mut(p), i.e. of result row i *)
ChunkBaseShared(i, p) == 0
ChunkBase(i, p) == i * p

(* number of chunks par_chunks_mut(size) yields on a buffer of length len;
   the call panics when size = 0 *)
NumChunks(len, size) == (len + size - 1) \div size

(* let mut t = [0.0; 8]; t[..rem].copy_from_slice(&buf[start..start + rem]) *)
PaddedLoad(buf, start, rem) ==
    [l \in 1..LANES |-> IF l <= rem THEN At(buf, start + l - 1) ELSE 0]

(* the slice buf[start..start + rem] restricted to the first `limit`
   elements of buf exists, and rem fits the 8-element array *)
SliceOk(limit, start, rem) ==
    start >= 0 /\ rem >= 0 /\ rem <= LANES /\ start + rem <= limit

(* f32x8::splat(a_elem) *)
Splat(x) == [l \in 1..LANES |-> x]

(* result_chunk += a_vec * b_chunk *)
MulAssign(result_chunk, a_vec, b_chunk) ==
    [l \in 1..LANES |-> a_vec[l] * b_chunk[l]]
MulAdd(result_chunk, a_vec, b_chunk) ==
    [l \in 1..LANES |-> result_chunk[l] + a_vec[l] * b_chunk[l]]

(* buf[start..start + rem].copy_from_slice(&chunk.to_array()[..rem]) *)
StoreLanes(buf, start, rem, chunk) ==
    [x \in 1..Len(buf) |->
        IF x - 1 >= start /\ x - 1 < start + rem
        THEN chunk[x - start] ELSE buf[x]]

(***************************************************************************)
(* The kernels as functions of their arguments: Ok(buffer) when the call   *)
(* returns, PANIC when it panics.                                          *)
(***************************************************************************)

(* for k in 0..n { sum += a[i * n + k] * b[k * p + j]; } *)
RECURSIVE DotLoop(_, _, _, _, _, _, _, _)
DotLoop(a, b, n, p, i, j, k, sum) ==
    IF k >= n THEN sum
    ELSE DotLoop(a, b, n, p, i, j, k + 1, DotStep(a, b, n, p, i, j, k, sum))

(* for j in 0..p { sum = dot product; row[base + j] = sum; } *)
RECURSIVE ScalarCols(_, _, _, _, _, _, _, _)
ScalarCols(a, b, n, p, i, j, base, buf) ==
    IF j >= p THEN buf
    ELSE ScalarCols(a, b, n, p, i, j + 1, base,
            [buf EXCEPT ![base + j + 1] = DotLoop(a, b, n, p, i, j, 0, 0)])

(* one column chunk of the vectorized inner loop, on the result slice that
   starts at index base of buf *)
AvxChunk(a_elem, b, p, k, j, base, buf) ==
    LET remaining == Remaining(p, j)
        b_chunk == PaddedLoad(b, k * p + j, remaining)
        result_tmp == PaddedLoad(buf, base + j, remaining)
        result_chunk == MulAdd(result_tmp, Splat(a_elem), b_chunk)
    IN  StoreLanes(buf, base + j, remaining, result_chunk)

(* for j in (0..p).step_by(8) { ... } *)
RECURSIVE AvxCols(_, _, _, _, _, _, _)
AvxCols(a_elem, b, p, k, j, base, buf) ==
    IF j >= p THEN buf
    ELSE AvxCols(a_elem, b, p, k, j + LANES, base,
                 AvxChunk(a_elem, b, p, k, j, base, buf))

(* for k in 0..n { let a_elem = a[i * n + k]; column loop } *)
RECURSIVE AvxRow(_, _, _, _, _, _, _, _)
AvxRow(a, b, n, p, i, k, base, buf) ==
    IF k >= n THEN buf
    ELSE AvxRow(a, b, n, p, i, k + 1, base,
                AvxCols(At(a, i * n + k), b, p, k, 0, base, buf))

(* the index the closure of enumerate() receives for chunk i when worker w
   runs it *)
RowOfWorker(i, w) == w - 1
RowOf(i, w) == i

RECURSIVE ScalarRows(_, _, _, _, _, _, _)
ScalarRows(a, b, m, n, p, i, buf) ==
    IF i >= m THEN buf
    ELSE ScalarRows(a, b, m, n, p, i + 1,
                    ScalarCols(a, b, n, p, i, 0, i * p, buf))

matrix_multiply(a, b, m, n, p) ==
    Ok(ScalarRows(a, b, m, n, p, 0, Zeros(m * p)))

RECURSIVE AvxRows(_, _, _, _, _, _, _)
AvxRows(a, b, m, n, p, i, buf) ==
    IF i >= m THEN buf
    ELSE AvxRows(a, b, m, n, p, i + 1, AvxRow(a, b, n, p, i, 0, i * p, buf))

matrix_multiply_avx(a, b, m, n, p) ==
    Ok(AvxRows(a, b, m, n, p, 0, Zeros(m * p)))

(* the chunks of par_chunks_mut(p).enumerate(), run one after the other in
   ascending order by a single worker *)
RECURSIVE RayonChunks(_, _, _, _, _, _, _)
RayonChunks(a, b, n, p, i, nchunks, buf) ==
    IF i >= nchunks THEN buf
    ELSE RayonChunks(a, b, n, p, i + 1, nchunks,
            ScalarCols(a, b, n, p, RowOf(i, 1), 0, ChunkBase(i, p), buf))

matrix_multiply_rayon(a, b, m, n, p) ==
    IF p = 0 THEN PANIC
    ELSE Ok(RayonChunks(a, b, n, p, 0, NumChunks(m * p, p), Zeros(m * p)))

RECURSIVE AvxRayonChunks(_, _, _, _, _, _, _)
AvxRayonChunks(a, b, n, p, i, nchunks, buf) ==
    IF i >= nchunks THEN buf
    ELSE AvxRayonChunks(a, b, n, p, i + 1, nchunks,
            AvxRow(a, b, n, p, RowOf(i, 1), 0, ChunkBase(i, p), buf))

matrix_multiply_avx_rayon(a, b, m, n, p) ==
    IF p = 0 THEN PANIC
    ELSE Ok(AvxRayonChunks(a, b, n, p, 0, NumChunks(m * p, p),
                           Zeros(m * p)))

(* the kernel named ker applied to the argument record x *)
RunKernel(ker, x) ==
    CASE ker = "matrix_multiply" -> matrix_multiply(x.a, x.b, x.m, x.n, x.p)
      [] ker = "matrix_multiply_rayon" ->
            matrix_multiply_rayon(x.a, x.b, x.m, x.n, x.p)
      [] ker = "matrix_multiply_avx" ->
            matrix_multiply_avx(x.a, x.b, x.m, x.n, x.p)
      [] ker = "matrix_multiply_avx_rayon" ->
            matrix_multiply_avx_rayon(x.a, x.b, x.m, x.n, x.p)

(***************************************************************************)
(* The callers' inputs: consistent dimensions and buffers, len(a) = m*n    *)
(* and len(b) = n*p, filled with consecutive integers the way the test     *)
(* matrix_multiply_correct fills them (a = 1..6, b = 7..12), b also        *)
(* negated.  p = 8*q + r covers full chunks and a partial last chunk.      *)
(***************************************************************************)
Cols == {LANES * q + r : q \in 0..MaxFullChunks, r \in 0..MaxRem}

Ramp(len, start, sign) == [x \in 1..len |-> sign * (start + x)]

Inputs ==
    {[a |-> Ramp(m * n, a0, 1), b |-> Ramp(n * p, a0 + m * n, sb),
      m |-> m, n |-> n, p |-> p] :
        m \in 0..MaxM, n \in 0..MaxN, p \in Cols,
        a0 \in 0..MaxStart, sb \in {1, -1}}

(***************************************************************************)
(* shared_mem_mutex and shared_mem_dashmap (lib.rs lines 13-56).  Both     *)
(* spawn NumThreads threads that each take the lock (the Mutex, or the     *)
(* write lock of the map shard that get_mut holds), add 1 to the value     *)
(* behind it and release the lock when the guard is dropped; the caller    *)
(* joins all handles in order, takes the lock and returns the value.       *)
(***************************************************************************)

(* for _ in 0..10 *)
NumThreads == 10

(* the lock holder id of the calling thread *)
MainThread == NumThreads + 1

Threads == 1..NumThreads

(* nothing of the counter programs is running *)
CntIdle ==
    /\ cfn = "none"
    /\ count = 0
    /\ holder = 0
    /\ tpc = <<>>
    /\ tnum = <<>>
    /\ mpc = "idle"
    /\ mi = 0
    /\ ret = -1

(* no runtime is running *)
RtIdle ==
    /\ phase = "idle"
    /\ runq = <<>>
    /\ running = "none"
    /\ budget = 0
    /\ woken = FALSE
    /\ timer = "unset"

(* the actors do not exist *)
ActIdle ==
    /\ counter = 0
    /\ pong = "None"
    /\ pingBox = <<>>
    /\ pongBox = <<>>
    /\ tst = "idle"
    /\ reply = -1
    /\ pingsRecv = 0
    /\ sentQuiet = FALSE
    /\ RtIdle

(* neither memory-ordering function is running *)
MoIdle ==
    /\ mofn = "none"
    /\ mem = <<>>
    /\ view = <<>>
    /\ mopc = <<>>
    /\ reg = <<>>
    /\ seen = {}
    /\ runs = 0

nonMatVars == <<cntVars, actVars, moVars>>
nonCntVars == <<matVars, actVars, moVars>>
nonActVars == <<matVars, cntVars, moVars>>
nonMoVars == <<matVars, cntVars, actVars>>

(* a row unit before it is picked up; worker is the worker that runs it, or
   ran it once st is "done" *)
PendingUnit == [st |-> "pending", worker |-> 0, j |-> 0, k |-> 0, sum |-> 0]

(* no column chunk processed yet *)
NoAccess == [k |-> -1, j |-> -1, bRead |-> {}, rRead |-> {}, rWrite |-> {},
             b_chunk |-> Zeros(LANES), result_tmp |-> Zeros(LANES)]

Rows == DOMAIN units

Panicked == pc \in {"panic_chunk_size", "panic_index"}
Finished == pc = "returned" \/ Panicked

(* what the caller of a finished call got *)
Outcome == IF pc = "returned" THEN Ok(result) ELSE PANIC

Init ==
    /\ CntIdle
    /\ ActIdle
    /\ MoIdle
    /\ args \in Inputs
    /\ kernel \in Kernels
    /\ nWorkers \in 1..MaxWorkers
    /\ kernel \notin RayonKernels => nWorkers = 1
    /\ pc = "ready"
    /\ result = <<>>
    /\ units = <<>>
    /\ access = <<>>
    /\ writers = <<>>
    /\ terms = <<>>
    /\ callNo = 0
    /\ prev = [pc |-> "none", result |-> <<>>]

(* let mut result = vec![0.0; m * p] *)
AllocWithCapacity(len) == <<>>
AllocStale(len) == IF Len(result) = len THEN result ELSE Zeros(len)
Alloc(len) == Zeros(len)

(* number of row units of a call: the iterations of `for i in 0..m`, or the
   chunks of result.par_chunks_mut(p) *)
UnitCount ==
    IF kernel \in RayonKernels THEN NumChunks(args.m * args.p, args.p)
    ELSE args.m

(* Entry of the kernel: allocate the result; the partitioned kernels split
   it into chunks of p elements, which panics for p = 0. *)
Call ==
    /\ UNCHANGED nonMatVars
    /\ pc = "ready" \/ Finished
    /\ callNo < MaxCalls
    /\ callNo' = callNo + 1
    /\ prev' = [pc |-> IF callNo = 0 THEN "none" ELSE pc, result |-> result]
    /\ result' = Alloc(args.m * args.p)
    /\ writers' = [x \in 1..(args.m * args.p) |-> {}]
    /\ terms' = [x \in 1..(args.m * args.p) |-> <<>>]
    /\ IF kernel \in RayonKernels /\ args.p = 0
       THEN /\ pc' = "panic_chunk_size"
            /\ units' = <<>>
            /\ access' = <<>>
       ELSE /\ pc' = "running"
            /\ units' = [i \in 0..(UnitCount - 1) |-> PendingUnit]
            /\ access' = [i \in 0..(UnitCount - 1) |-> NoAccess]
    /\ UNCHANGED <<args, kernel, nWorkers>>

(* for i in 0..m: the caller's thread enters the next row *)
LoopRow(i) ==
    /\ UNCHANGED nonMatVars
    /\ pc = "running"
    /\ kernel \notin RayonKernels
    /\ i \in Rows
    /\ units[i].st = "pending"
    /\ \A r \in Rows : r < i => units[r].st = "done"
    /\ units' = [units EXCEPT ![i].st = "running", ![i].worker = 1]
    /\ UNCHANGED <<args, kernel, nWorkers, pc, result, access, writers,
                   terms,
                   callNo, prev>>

(* for_each: an idle worker of the pool takes any chunk not yet taken *)
PoolStartRow(w, i) ==
    /\ UNCHANGED nonMatVars
    /\ pc = "running"
    /\ kernel \in RayonKernels
    /\ i \in Rows
    /\ units[i].st = "pending"
    /\ w \in 1..nWorkers
    /\ \A r \in Rows : units[r].st = "running" => units[r].worker # w
    /\ units' = [units EXCEPT ![i].st = "running", ![i].worker = w]
    /\ UNCHANGED <<args, kernel, nWorkers, pc, result, access, writers,
                   terms,
                   callNo, prev>>

(* terms[x] lists, for result index x - 1, the shared indices k whose term
   has been added into that element's accumulator so far, in the order of
   the additions, each with the amount added.  Added records one more
   addition for the indices in `touched`. *)
Added(hist, touched, k, amount) ==
    [x \in 1..Len(hist) |->
        IF x - 1 \in touched THEN Append(hist[x], <<k, amount[x]>>)
        ELSE hist[x]]

(* an index or slice range outside its buffer: the thread panics *)
IndexPanic ==
    /\ pc' = "panic_index"
    /\ UNCHANGED <<args, kernel, nWorkers, result, units, access, writers,
                   terms,
                   callNo, prev>>

(* first result index of the row that unit i works on: the chunk handed to
   the closure, or i * p in the sequential kernels *)
RowBase(i) ==
    IF kernel \in RayonKernels THEN ChunkBase(i, args.p)
    ELSE RowOf(i, units[i].worker) * args.p

(* one past the last result index unit i can address: the end of its
   chunk, or of the whole buffer in the sequential kernels *)
RowLimit(i) ==
    IF kernel \in RayonKernels THEN RowBase(i) + args.p ELSE Len(result)

(* result[i * p + j] = sum  /  result_row[j] = sum *)
WriteElemIntoB(i, x, val) ==
    /\ args' = [args EXCEPT !.b = [args.b EXCEPT ![x + 1] = val]]
    /\ UNCHANGED <<result, writers>>
WriteElem(i, x, val) ==
    /\ result' = [result EXCEPT ![x + 1] = val]
    /\ writers' = [writers EXCEPT ![x + 1] = @ \cup {i}]
    /\ args' = args

(* One step of the scalar row body (lines 77-87, 100-106): one iteration
   of the k loop, or the store that ends an iteration of the j loop. *)
ScalarStep(i) ==
    /\ UNCHANGED nonMatVars
    /\ pc = "running"
    /\ kernel \notin AvxKernels
    /\ i \in Rows
    /\ units[i].st = "running"
    /\ units[i].j < args.p
    /\ LET u == units[i]
           row == RowOf(i, u.worker)
       IN  IF u.k < args.n
           THEN IF DotInBounds(args.a, args.b, args.n, args.p, row, u.j, u.k)
                THEN /\ units' = [units EXCEPT
                            ![i].sum = DotStep(args.a, args.b, args.n, args.p,
                                               row, u.j, u.k, u.sum),
                            ![i].k = u.k + 1]
                     /\ terms' = Added(terms, {RowBase(i) + u.j}, u.k,
                                       [x \in 1..Len(terms) |->
                                          DotStep(args.a, args.b, args.n,
                                                  args.p, row, u.j, u.k,
                                                  u.sum) - u.sum])
                     /\ UNCHANGED <<args, kernel, nWorkers, pc, result,
                                    access, writers, callNo, prev>>
                ELSE IndexPanic
           ELSE IF RowBase(i) + u.j < RowLimit(i)
                THEN /\ WriteElem(i, RowBase(i) + u.j, u.sum)
                     /\ units' = [units EXCEPT ![i].j = u.j + 1,
                                               ![i].k = 0, ![i].sum = 0]
                     /\ UNCHANGED <<kernel, nWorkers, pc, access, terms,
                                    callNo, prev>>
                ELSE IndexPanic

(* result[..].copy_from_slice(&result_chunk.to_array()[..remaining]) *)
StoreChunk(i, start, rem, chunk) ==
    /\ result' = StoreLanes(result, start, rem, chunk)
    /\ writers' = [x \in 1..Len(writers) |->
                     IF x - 1 >= start /\ x - 1 < start + rem
                     THEN writers[x] \cup {i} ELSE writers[x]]
    /\ args' = args

(* One step of the vectorized row body (lines 119-145, 161-187): the
   broadcast of a[i * n + k] and one column chunk of the j loop; after the
   last chunk the k loop advances.  With p = 0 the j loop is empty. *)
AvxStep(i) ==
    /\ UNCHANGED nonMatVars
    /\ pc = "running"
    /\ kernel \in AvxKernels
    /\ i \in Rows
    /\ units[i].st = "running"
    /\ units[i].k < args.n
    /\ LET u == units[i]
           row == RowOf(i, u.worker)
           remaining == Remaining(args.p, u.j)
           bStart == u.k * args.p + u.j
           rStart == RowBase(i) + u.j
       IN  IF ~InBounds(args.a, row * args.n + u.k)
           THEN IndexPanic
           ELSE IF u.j >= args.p
           THEN /\ units' = [units EXCEPT ![i].k = u.k + 1, ![i].j = 0]
                /\ UNCHANGED <<args, kernel, nWorkers, pc, result, access,
                               writers, terms, callNo, prev>>
           ELSE IF ~SliceOk(Len(args.b), bStart, remaining)
                   \/ ~SliceOk(RowLimit(i), rStart, remaining)
           THEN IndexPanic
           ELSE LET a_vec == Splat(At(args.a, row * args.n + u.k))
                    b_chunk == PaddedLoad(args.b, bStart, remaining)
                    result_tmp == PaddedLoad(result, rStart, remaining)
                    result_chunk == MulAdd(result_tmp, a_vec, b_chunk)
                    touched == {rStart + l : l \in 0..(remaining - 1)}
                IN  /\ StoreChunk(i, rStart, remaining, result_chunk)
                    /\ terms' = Added(terms, touched, u.k,
                                      [x \in 1..Len(terms) |->
                                         IF x - 1 \in touched
                                         THEN result_chunk[x - rStart]
                                              - result[x]
                                         ELSE 0])
                    /\ access' = [access EXCEPT ![i] =
                          [k |-> u.k, j |-> u.j,
                           bRead |-> {bStart + l : l \in 0..(remaining - 1)},
                           rRead |-> touched, rWrite |-> touched,
                           b_chunk |-> b_chunk, result_tmp |-> result_tmp]]
                    /\ units' = IF u.j + LANES >= args.p
                                THEN [units EXCEPT ![i].k = u.k + 1,
                                                   ![i].j = 0]
                                ELSE [units EXCEPT ![i].j = u.j + LANES]
                    /\ UNCHANGED <<kernel, nWorkers, pc, callNo, prev>>

(* the loops of the row body have run to their end *)
RowBodyDoneEarly(i) ==
    IF kernel \in AvxKernels THEN units[i].k >= args.n - 1
    ELSE units[i].j >= args.p - 1
RowBodyDone(i) ==
    IF kernel \in AvxKernels THEN units[i].k >= args.n
    ELSE units[i].j >= args.p

(* end of the row body: the closure returns, or the i loop moves on *)
RowEnd(i) ==
    /\ UNCHANGED nonMatVars
    /\ pc = "running"
    /\ i \in Rows
    /\ units[i].st = "running"
    /\ RowBodyDone(i)
    /\ units' = [units EXCEPT ![i].st = "done"]
    /\ UNCHANGED <<args, kernel, nWorkers, pc, result, access, writers,
                   terms,
                   callNo, prev>>

(* for_each has run the closure on every chunk / the i loop has ended *)
NoRowRunning == \A i \in Rows : units[i].st # "running"
AllRowsDone == \A i \in Rows : units[i].st = "done"

(* the kernel hands `result` to its caller *)
Return ==
    /\ UNCHANGED nonMatVars
    /\ pc = "running"
    /\ AllRowsDone
    /\ pc' = "returned"
    /\ UNCHANGED <<args, kernel, nWorkers, result, units, access, writers,
                   terms,
                   callNo, prev>>

Next ==
    \/ Call
    \/ \E i \in 0..(MaxM + 1) : LoopRow(i)
    \/ \E w \in 1..(MaxWorkers + 1), i \in 0..(MaxM + 1) : PoolStartRow(w, i)
    \/ \E i \in 0..(MaxM + 1) : ScalarStep(i)
    \/ \E i \in 0..(MaxM + 1) : AvxStep(i)
    \/ \E i \in 0..(MaxM + 1) : RowEnd(i)
    \/ Return

Spec == Init /\ [][Next]_vars

(***************************************************************************)
(* Properties.                                                             *)
(***************************************************************************)

(* sum over k in 0..upto-1 of a[i*n+k] * b[k*p+j], for the current inputs *)
RECURSIVE DotProduct(_, _, _)
DotProduct(i, j, upto) ==
    IF upto = 0 THEN 0
    ELSE DotProduct(i, j, upto - 1)
         + At(args.a, i * args.n + upto - 1)
           * At(args.b, (upto - 1) * args.p + j)

(* the inputs of the test matrix_multiply_correct *)
TestInputs ==
    /\ args.m = 2 /\ args.n = 3 /\ args.p = 2
    /\ args.a = <<1, 2, 3, 4, 5, 6>>
    /\ args.b = <<7, 8, 9, 10, 11, 12>>

(* C1: every call of every one of the four kernels returns, and returns
   the buffer the scalar kernel matrix_multiply computes for the same
   inputs. *)
C1_AllKernelsAgree ==
    Finished =>
        Outcome = matrix_multiply(args.a, args.b, args.m, args.n, args.p)

(* C2: when matrix_multiply has returned, element i*p+j of the result is
   the sum over k < n of a[i*n+k] * b[k*p+j], for every i < m and j < p. *)
C2_ScalarDotProduct ==
    (kernel = "matrix_multiply" /\ pc = "returned") =>
        \A i \in 0..(args.m - 1), j \in 0..(args.p - 1) :
            /\ InBounds(result, i * args.p + j)
            /\ At(result, i * args.p + j) = DotProduct(i, j, args.n)

C2_Witness ==
    /\ kernel = "matrix_multiply"
    /\ pc = "returned"
    /\ TestInputs
    /\ result = <<58, 64, 139, 154>>

(* C3: every call of every kernel returns a buffer of length m * p. *)
C3_ReturnsLengthMP ==
    Finished => (pc = "returned" /\ Len(result) = args.m * args.p)

(* C4: a call with m = 0 or p = 0 completes without error and returns the
   empty sequence, in every kernel. *)
C4_DegenerateReturnsEmpty ==
    (Finished /\ (args.m = 0 \/ args.p = 0)) =>
        (~Panicked /\ result = <<>>)

(* C5: in the partitioned kernels every result index is written by at most
   one row unit, and the unit of row i writes only inside [i*p, (i+1)*p). *)
C5_DisjointWrites ==
    kernel \in RayonKernels =>
        \A x \in 1..Len(writers) :
            /\ Cardinality(writers[x]) <= 1
            /\ \A i \in writers[x] :
                  i * args.p <= x - 1 /\ x - 1 < (i + 1) * args.p

C5_Witness ==
    /\ kernel \in RayonKernels
    /\ \E i1 \in Rows, i2 \in Rows :
          /\ i1 # i2
          /\ units[i1].st = "running" /\ units[i2].st = "running"
          /\ \E x \in 1..Len(writers) : writers[x] = {i1}
          /\ \E x \in 1..Len(writers) : writers[x] = {i2}

(* C6: a partitioned kernel has returned only if one row unit per row was
   dispatched and every one of them has run its body to the end. *)
C6_ReturnAfterAllRows ==
    (kernel \in RayonKernels /\ pc = "returned") =>
        /\ Rows = 0..(args.m - 1)
        /\ \A i \in Rows : units[i].st = "done" /\ RowBodyDone(i)

C6_Witness ==
    /\ kernel \in RayonKernels
    /\ pc = "returned"
    /\ nWorkers = 2
    /\ args.m = 2 /\ args.n > 0 /\ args.p > 0

(* C7: the outcome of a partitioned kernel is the one a single worker
   taking the rows in ascending order produces, whatever the number of
   workers and whichever worker ran which row in which order. *)
C7_ScheduleIndependent ==
    (kernel \in RayonKernels /\ Finished) =>
        Outcome = RunKernel(kernel, args)

C7_Witness ==
    /\ kernel \in RayonKernels
    /\ pc = "returned"
    /\ nWorkers = 2
    /\ args.m = 2 /\ args.n > 0 /\ args.p > LANES
    /\ units[0].worker = 2 /\ units[1].worker = 1

(* C8: in the vectorized kernels a column chunk at j of row i, shared
   index k, reads exactly the min(p - j, 8) elements of b from k*p+j and
   reads and writes exactly that many result elements from i*p+j, all
   inside b, the result buffer and row i; the remaining lanes of the two
   padded arrays are zero; no access is out of range. *)
C8_ChunkAccessInBounds ==
    kernel \in AvxKernels =>
        /\ pc # "panic_index"
        /\ \A i \in Rows :
              access[i].j >= 0 =>
                LET c == access[i]
                    valid == IF args.p - c.j < 8 THEN args.p - c.j ELSE 8
                IN  /\ valid >= 1
                    /\ c.bRead
                         = {c.k * args.p + c.j + l : l \in 0..(valid - 1)}
                    /\ c.rWrite
                         = {i * args.p + c.j + l : l \in 0..(valid - 1)}
                    /\ c.rRead = c.rWrite
                    /\ \A x \in c.bRead : x >= 0 /\ x < args.n * args.p
                    /\ \A x \in c.rWrite :
                          /\ x >= 0 /\ x < args.m * args.p
                          /\ x >= i * args.p /\ x < (i + 1) * args.p
                    /\ \A l \in (valid + 1)..8 :
                          c.b_chunk[l] = 0 /\ c.result_tmp[l] = 0

C8_Witness ==
    /\ kernel \in AvxKernels
    /\ args.p = 10
    /\ \E i \in Rows :
          /\ access[i].j = 8
          /\ Cardinality(access[i].rWrite) = 2
          /\ access[i].b_chunk[1] # 0

(* C9: no step of any kernel changes the input buffers or dimensions. *)
C9_InputsUnchanged == [][args' = args]_vars

C9_Witness ==
    /\ pc = "returned"
    /\ Len(args.a) > 0 /\ Len(args.b) > 0
    /\ \E x \in 1..Len(result) : result[x] # 0 /\ writers[x] # {}

(* C10: a second call with the same inputs ends the way the first did and
   with the same result, whatever the scheduling of either call. *)
C10_SameOutputTwice ==
    (callNo >= 2 /\ Finished) => (pc = prev.pc /\ result = prev.result)

C10_Witness ==
    /\ callNo = 2
    /\ pc = "returned"
    /\ kernel = "matrix_multiply_avx_rayon"
    /\ nWorkers = 2
    /\ \E x \in 1..Len(result) : result[x] # 0

(* C15: for every output element the terms a[i*n+k] * b[k*p+j] enter its
   accumulator for k = 0, 1, 2, ... in this order, each once, and all n of
   them have entered when the call has returned; in every kernel and under
   every distribution of rows over workers. *)
C15_AscendingK ==
    \A x \in 1..Len(terms) :
        LET i == (x - 1) \div args.p
            j == (x - 1) % args.p
        IN  /\ Len(terms[x]) <= args.n
            /\ \A t \in 1..Len(terms[x]) :
                  terms[x][t] = <<t - 1,
                                  At(args.a, i * args.n + t - 1)
                                  * At(args.b, (t - 1) * args.p + j)>>
            /\ pc = "returned" => Len(terms[x]) = args.n

C15_Witness ==
    /\ kernel = "matrix_multiply_avx_rayon"
    /\ pc = "returned"
    /\ nWorkers = 2
    /\ args.m = 2 /\ args.n = 3 /\ args.p = 10
    /\ units[0].worker = 2
    /\ \A x \in 1..Len(terms) : Len(terms[x]) = 3

(* no element of the current call's result has been written *)
NothingWritten == \A x \in 1..Len(writers) : writers[x] = {}

(* C16 as stated: the result is all zeros as long as nothing has been
   written to it, and when the call has returned every one of the m * p
   elements has been written at least once, n = 0 included. *)
C16_FullyOverwritten ==
    /\ (pc = "running" /\ NothingWritten) => result = Zeros(args.m * args.p)
    /\ pc = "returned" =>
          /\ Len(writers) = args.m * args.p
          /\ \A x \in 1..Len(writers) : writers[x] # {}

(* C16 amended: the result is all zeros as long as nothing has been written
   to it; when the call has returned every element has been written at
   least once, except that for n = 0 the two vectorized kernels write
   nothing and return the zero-initialized buffer. *)
C16_OverwrittenUnlessAvxN0 ==
    /\ (pc = "running" /\ NothingWritten) => result = Zeros(args.m * args.p)
    /\ pc = "returned" =>
          /\ Len(writers) = args.m * args.p
          /\ IF kernel \in AvxKernels /\ args.n = 0
             THEN NothingWritten /\ result = Zeros(args.m * args.p)
             ELSE \A x \in 1..Len(writers) : writers[x] # {}

C16_Witness ==
    /\ pc = "returned"
    /\ kernel = "matrix_multiply_avx"
    /\ args.n = 3 /\ args.m = 2 /\ args.p = 10
    /\ callNo = 2
    /\ \A x \in 1..20 : writers[x] # {} /\ result[x] # 0

(* C17: a call with n = 0 and m, p > 0 returns, in every kernel, a buffer
   of m * p zeros. *)
C17_EmptySharedDimension ==
    (Finished /\ args.n = 0 /\ args.m > 0 /\ args.p > 0) =>
        /\ pc = "returned"
        /\ Len(result) = args.m * args.p
        /\ \A x \in 1..Len(result) : result[x] = 0

C17_Witness ==
    /\ pc = "returned"
    /\ kernel = "matrix_multiply_rayon"
    /\ args.n = 0 /\ args.m = 2 /\ args.p = 9
    /\ Len(result) = 18

(* C18: in the vectorized kernels, whenever row i stands between two
   passes of its column loop with K values of k completed, every element j
   of the row holds the sum over k < K of a[i*n+k] * b[k*p+j]; a row not
   yet started is all zeros. *)
C18_PartialSums ==
    (kernel \in AvxKernels /\ pc \in {"running", "returned"}) =>
        \A i \in Rows :
            /\ (units[i].st # "pending" /\ units[i].j = 0) =>
                  \A j \in 0..(args.p - 1) :
                      At(result, i * args.p + j)
                          = DotProduct(i, j, units[i].k)
            /\ units[i].st = "pending" =>
                  \A j \in 0..(args.p - 1) : At(result, i * args.p + j) = 0

C18_Witness ==
    /\ kernel = "matrix_multiply_avx_rayon"
    /\ pc = "running"
    /\ args.n = 3 /\ args.p = 10 /\ args.m = 2
    /\ units[1].st = "running" /\ units[1].k = 2 /\ units[1].j = 0
    /\ units[0].st = "pending"
    /\ At(result, 19) # 0

(***************************************************************************)
(* shared_mem_mutex and shared_mem_dashmap as a state machine.             *)
(***************************************************************************)

(* the matrix kernels are not running *)
MatIdle ==
    /\ args = [a |-> <<>>, b |-> <<>>, m |-> 0, n |-> 0, p |-> 0]
    /\ kernel = "matrix_multiply"
    /\ nWorkers = 1
    /\ pc = "ready"
    /\ result = <<>>
    /\ units = <<>>
    /\ access = <<>>
    /\ writers = <<>>
    /\ terms = <<>>
    /\ callNo = 0
    /\ prev = [pc |-> "none", result |-> <<>>]

(* Mutex::new(0) / DashMap::new() with insert("value", 0); no thread
   spawned yet *)
InitCounter ==
    /\ MatIdle
    /\ ActIdle
    /\ MoIdle
    /\ cfn \in {"shared_mem_mutex", "shared_mem_dashmap"}
    /\ count = 0
    /\ holder = 0
    /\ tpc = [t \in Threads |-> "unspawned"]
    /\ tnum = [t \in Threads |-> 0]
    /\ mpc = "spawn"
    /\ mi = 0
    /\ ret = -1

(* count.lock() / count.get_mut("value") can proceed: nobody holds the
   lock *)
LockFreeAlways(h) == TRUE
LockFree(h) == h = 0

(* thread::spawn in `for _ in 0..10`; after the last one the caller goes
   on to the join loop *)
SpawnThread ==
    /\ mpc = "spawn"
    /\ mi < NumThreads
    /\ tpc' = [tpc EXCEPT ![mi + 1] = "lock"]
    /\ mi' = IF mi + 1 = NumThreads THEN 0 ELSE mi + 1
    /\ mpc' = IF mi + 1 = NumThreads THEN "join" ELSE "spawn"
    /\ UNCHANGED <<cfn, count, holder, tnum, ret, nonCntVars>>

(* let mut num = count.lock().unwrap() *)
ThreadLock(t) ==
    /\ tpc[t] = "lock"
    /\ LockFree(holder)
    /\ holder' = t
    /\ tpc' = [tpc EXCEPT ![t] = "read"]
    /\ UNCHANGED <<cfn, count, tnum, mpc, mi, ret, nonCntVars>>

(* *num += 1: the read of the current value *)
ThreadRead(t) ==
    /\ tpc[t] = "read"
    /\ tnum' = [tnum EXCEPT ![t] = count]
    /\ tpc' = [tpc EXCEPT ![t] = "write"]
    /\ UNCHANGED <<cfn, count, holder, mpc, mi, ret, nonCntVars>>

(* *num += 1: the write of the value read plus one; the temporary is
   dead afterwards *)
ThreadWrite(t) ==
    /\ tpc[t] = "write"
    /\ count' = tnum[t] + 1
    /\ tnum' = [tnum EXCEPT ![t] = 0]
    /\ tpc' = [tpc EXCEPT ![t] = "unlock"]
    /\ UNCHANGED <<cfn, holder, mpc, mi, ret, nonCntVars>>

(* end of the closure: the guard is dropped and the thread ends *)
ThreadUnlock(t) ==
    /\ tpc[t] = "unlock"
    /\ holder' = 0
    /\ tpc' = [tpc EXCEPT ![t] = "done"]
    /\ UNCHANGED <<cfn, count, tnum, mpc, mi, ret, nonCntVars>>

(* handle.join().unwrap() in `for handle in handles` *)
JoinThread ==
    /\ mpc = "join"
    /\ tpc[mi + 1] = "done"
    /\ mi' = IF mi + 1 = NumThreads THEN 0 ELSE mi + 1
    /\ mpc' = IF mi + 1 = NumThreads THEN "lock" ELSE "join"
    /\ UNCHANGED <<cfn, count, holder, tpc, tnum, ret, nonCntVars>>

(* let result = count.lock().unwrap() / count.get("value").unwrap() *)
MainLock ==
    /\ mpc = "lock"
    /\ LockFree(holder)
    /\ holder' = MainThread
    /\ mpc' = "read"
    /\ UNCHANGED <<cfn, count, tpc, tnum, mi, ret, nonCntVars>>

(* *result: the value is returned and the guard dropped *)
MainReturn ==
    /\ mpc = "read"
    /\ ret' = count
    /\ holder' = 0
    /\ mpc' = "done"
    /\ UNCHANGED <<cfn, count, tpc, tnum, mi, nonCntVars>>

NextCounter ==
    \/ SpawnThread
    \/ \E t \in Threads : ThreadLock(t)
    \/ \E t \in Threads : ThreadRead(t)
    \/ \E t \in Threads : ThreadWrite(t)
    \/ \E t \in Threads : ThreadUnlock(t)
    \/ JoinThread
    \/ MainLock
    \/ MainReturn

SpecCounter == InitCounter /\ [][NextCounter]_vars

(* threads whose increment has been written *)
Incremented == {t \in Threads : tpc[t] \in {"unlock", "done"}}

(* C11: shared_mem_mutex and shared_mem_dashmap return 10.  At every
   moment the counter equals the number of threads that have written their
   increment (no update is lost or applied twice), at most one thread is
   between taking and releasing the lock, and the caller reads the value
   only after all 10 threads have ended. *)
C11_CounterReturnsTen ==
    /\ count = Cardinality(Incremented)
    /\ Cardinality({t \in Threads : tpc[t] \in {"read", "write", "unlock"}})
          <= 1
    /\ mpc \in {"lock", "read", "done"} =>
          \A t \in Threads : tpc[t] = "done"
    /\ mpc = "done" => ret = 10

C11_Witness ==
    /\ mpc = "done"
    /\ ret = 10
    /\ cfn = "shared_mem_dashmap"
    /\ \A t \in Threads : tpc[t] = "done"

(***************************************************************************)
(* The Ping/Pong actors (actors.rs) driven by the test ping_pong_works.    *)
(* A mailbox is a FIFO queue; do_send appends to it; an actor handles the  *)
(* message at the head of its mailbox.                                     *)
(***************************************************************************)

(* `if self.counter < 10` *)
Limit == 10

(* PingActor { counter: 0, pong: None }.start(), PongActor { ping }.start() *)
Started ==
    /\ MatIdle
    /\ CntIdle
    /\ MoIdle
    /\ counter = 0
    /\ pong = "None"
    /\ pingBox = <<>>
    /\ pongBox = <<>>
    /\ tst = "start"
    /\ reply = -1
    /\ pingsRecv = 0
    /\ sentQuiet = FALSE

InitActors == Started /\ RtIdle

(* no Ping and no Pong is waiting in a mailbox *)
InFlight ==
    Len(SelectSeq(pingBox, LAMBDA x : x = "Pong")) + Len(pongBox)
Quiet == InFlight = 0

(* ping_addr.send(SetPong(pong_addr.clone())) *)
TestSendSetPong ==
    /\ tst = "start"
    /\ pingBox' = Append(pingBox, "SetPong")
    /\ tst' = "awaitSetPong"
    /\ UNCHANGED <<counter, pong, pongBox, reply, pingsRecv, sentQuiet,
                   nonActVars>>

(* Handler<SetPong> for PingActor; its return completes the test's await *)
HandleSetPong ==
    /\ pingBox # <<>>
    /\ Head(pingBox) = "SetPong"
    /\ pong' = "Some"
    /\ pongBox' = Append(pongBox, "Ping")
    /\ pingBox' = Tail(pingBox)
    /\ tst' = "sleep"
    /\ UNCHANGED <<counter, reply, pingsRecv, sentQuiet, nonActVars>>

(* Handler<Ping> for PongActor *)
HandlePing ==
    /\ pongBox # <<>>
    /\ Head(pongBox) = "Ping"
    /\ pongBox' = Tail(pongBox)
    /\ pingBox' = Append(pingBox, "Pong")
    /\ pingsRecv' = pingsRecv + 1
    /\ UNCHANGED <<counter, pong, tst, reply, sentQuiet, nonActVars>>

(* the test of `if self.counter < 10`, on the incremented counter *)
ShouldPingNever(c) == FALSE
ShouldPingInclusive(c) == c <= Limit
ShouldPing(c) == c < Limit

(* Handler<Pong> for PingActor *)
HandlePong ==
    /\ pingBox # <<>>
    /\ Head(pingBox) = "Pong"
    /\ pingBox' = Tail(pingBox)
    /\ IF pong = "Some"
       THEN /\ counter' = counter + 1
            /\ pongBox' = IF ShouldPing(counter + 1)
                          THEN Append(pongBox, "Ping") ELSE pongBox
       ELSE UNCHANGED <<counter, pongBox>>
    /\ UNCHANGED <<pong, tst, reply, pingsRecv, sentQuiet, nonActVars>>

(* the sleep of 1 ms ends and the test sends GetCounter *)
TestSendGetCounter ==
    /\ tst = "sleep"
    /\ pingBox' = Append(pingBox, "GetCounter")
    /\ tst' = "awaitCounter"
    /\ sentQuiet' = Quiet
    /\ UNCHANGED <<counter, pong, pongBox, reply, pingsRecv, nonActVars>>

(* Handler<GetCounter> for PingActor; the test receives self.counter *)
HandleGetCounter ==
    /\ pingBox # <<>>
    /\ Head(pingBox) = "GetCounter"
    /\ pingBox' = Tail(pingBox)
    /\ reply' = counter
    /\ tst' = "done"
    /\ UNCHANGED <<counter, pong, pongBox, pingsRecv, sentQuiet, nonActVars>>

(* The handlers and the test's two sends in any order: SpecActors leaves
   open how the runtime schedules them and places no limit on when the
   test's sleep ends, so it contains every behaviour of the test. *)
NextActors ==
    \/ TestSendSetPong /\ UNCHANGED rtVars
    \/ HandleSetPong /\ UNCHANGED rtVars
    \/ HandlePing /\ UNCHANGED rtVars
    \/ HandlePong /\ UNCHANGED rtVars
    \/ TestSendGetCounter /\ UNCHANGED rtVars
    \/ HandleGetCounter /\ UNCHANGED rtVars

SpecActors == InitActors /\ [][NextActors]_vars

(***************************************************************************)
(* The test ping_pong_works on the runtime of #[actix_rt::test].           *)
(*                                                                         *)
(* The runtime is single-threaded: System::block_on drives the test body   *)
(* with LocalSet::run_until on a current-thread runtime, and start()       *)
(* spawns each actor as a local task of that LocalSet.  One poll of        *)
(* run_until polls the test body once, until it returns Pending at an      *)
(* .await, and then runs one tick of the LocalSet: ready actor tasks, at   *)
(* most TickBudget of them; which ready task is polled next is left open   *)
(* here.  A polled actor task handles the messages of its mailbox in       *)
(* order and returns Pending when the mailbox is empty.  do_send and send  *)
(* put the message into the mailbox and wake the receiving task; the       *)
(* reply of send wakes the test body.                                      *)
(* With nothing ready the thread parks until the timer of the sleep        *)
(* fires.  When the test body returns or panics, block_on returns, the     *)
(* runtime is dropped and no handler runs again.                           *)
(*                                                                         *)
(* phase   "poll": the test body is polled next; "tick": actor tasks run;  *)
(*         "park": the thread waits; "returned", "panicked": test over     *)
(* runq    the ready actor tasks                                           *)
(* running the actor task being polled, or "none"                          *)
(* budget  task polls left in this tick                                    *)
(* woken   the test body has been woken since its last poll                *)
(* timer   of the sleep: "unset", "armed", "fired"                         *)
(***************************************************************************)

(* tasks a LocalSet polls in one tick (MAX_TASKS_PER_TICK) *)
TickBudget == 61

(* waking a task that is already scheduled does nothing *)
Wake(q, t) ==
    IF \E x \in 1..Len(q) : q[x] = t THEN q ELSE Append(q, t)

Mailbox(t) == IF t = "ping" THEN pingBox ELSE pongBox

(* first poll of the test body: both actors started (their tasks spawned,
   PingActor first), nothing sent yet *)
InitTest ==
    /\ Started
    /\ phase = "poll"
    /\ runq = <<"ping", "pong">>
    /\ running = "none"
    /\ budget = 0
    /\ woken = FALSE
    /\ timer = "unset"

(* the test body has returned Pending: a tick of the LocalSet follows *)
BodyPending ==
    /\ phase' = "tick"
    /\ budget' = TickBudget
    /\ woken' = FALSE
    /\ UNCHANGED running

(* the body runs to `ping_addr.send(SetPong(..)).await` *)
PollSendSetPong ==
    /\ phase = "poll"
    /\ TestSendSetPong
    /\ runq' = Wake(runq, "ping")
    /\ BodyPending
    /\ UNCHANGED timer

(* woken by the reply to SetPong, the body runs to `sleep(1 ms).await` *)
PollStartSleep ==
    /\ phase = "poll"
    /\ tst = "sleep"
    /\ timer = "unset"
    /\ timer' = "armed"
    /\ BodyPending
    /\ UNCHANGED <<counter, pong, pingBox, pongBox, tst, reply, pingsRecv,
                   sentQuiet, runq, nonActVars>>

(* woken by the timer, the body runs to `ping_addr.send(GetCounter).await` *)
PollSendGetCounter ==
    /\ phase = "poll"
    /\ timer = "fired"
    /\ TestSendGetCounter
    /\ runq' = Wake(runq, "ping")
    /\ BodyPending
    /\ UNCHANGED timer

(* woken by the reply to GetCounter, the body runs
   `assert_eq!(counter, 10)` and ends *)
PollAssert ==
    /\ phase = "poll"
    /\ tst = "done"
    /\ phase' = IF reply = 10 THEN "returned" ELSE "panicked"
    /\ UNCHANGED <<counter, pong, pingBox, pongBox, tst, reply, pingsRecv,
                   sentQuiet, runq, running, budget, woken, timer,
                   nonActVars>>

(* q without its x-th element *)
Without(q, x) == SubSeq(q, 1, x - 1) \o SubSeq(q, x + 1, Len(q))

(* the tick takes a ready task *)
TickRun ==
    /\ phase = "tick"
    /\ running = "none"
    /\ budget > 0
    /\ \E x \in 1..Len(runq) :
          /\ running' = runq[x]
          /\ runq' = Without(runq, x)
    /\ budget' = budget - 1
    /\ UNCHANGED <<counter, pong, pingBox, pongBox, tst, reply, pingsRecv,
                   sentQuiet, phase, woken, timer, nonActVars>>

(* the polled PingActor handles SetPong: do_send wakes PongActor, the
   reply wakes the test body *)
RunHandleSetPong ==
    /\ phase = "tick"
    /\ running = "ping"
    /\ HandleSetPong
    /\ runq' = Wake(runq, "pong")
    /\ woken' = TRUE
    /\ UNCHANGED <<phase, running, budget, timer>>

(* the polled PongActor handles Ping: do_send wakes PingActor *)
RunHandlePing ==
    /\ phase = "tick"
    /\ running = "pong"
    /\ HandlePing
    /\ runq' = Wake(runq, "ping")
    /\ UNCHANGED <<phase, running, budget, woken, timer>>

(* the polled PingActor handles Pong: do_send, if any, wakes PongActor *)
RunHandlePong ==
    /\ phase = "tick"
    /\ running = "ping"
    /\ HandlePong
    /\ runq' = IF Len(pongBox') > Len(pongBox)
               THEN Wake(runq, "pong") ELSE runq
    /\ UNCHANGED <<phase, running, budget, woken, timer>>

(* the polled PingActor handles GetCounter: the reply wakes the test body *)
RunHandleGetCounter ==
    /\ phase = "tick"
    /\ running = "ping"
    /\ HandleGetCounter
    /\ woken' = TRUE
    /\ UNCHANGED <<phase, runq, running, budget, timer>>

(* the mailbox of the polled task is empty: the task returns Pending *)
TaskPending ==
    /\ phase = "tick"
    /\ running # "none"
    /\ Mailbox(running) = <<>>
    /\ running' = "none"
    /\ UNCHANGED <<counter, pong, pingBox, pongBox, tst, reply, pingsRecv,
                   sentQuiet, phase, runq, budget, woken, timer,
                   nonActVars>>

(* the tick is over, with no task ready or the budget used up: the body is
   polled if it was woken, tasks still ready get another tick, and with
   neither the thread parks *)
TickEnd ==
    /\ phase = "tick"
    /\ running = "none"
    /\ runq = <<>> \/ budget = 0
    /\ phase' = IF woken THEN "poll"
                ELSE IF runq # <<>> THEN "tick" ELSE "park"
    /\ budget' = IF ~woken /\ runq # <<>> THEN TickBudget ELSE budget
    /\ UNCHANGED <<counter, pong, pingBox, pongBox, tst, reply, pingsRecv,
                   sentQuiet, runq, running, woken, timer, nonActVars>>

(* 1 ms has passed and the runtime polls its timer, which it does when
   parked and between two ticks: the sleep wakes the test body *)
TimerFires ==
    /\ timer = "armed"
    /\ \/ phase = "park"
       \/ phase = "tick" /\ running = "none" /\ budget = 0
    /\ timer' = "fired"
    /\ woken' = TRUE
    /\ phase' = IF phase = "park" THEN "poll" ELSE phase
    /\ UNCHANGED <<counter, pong, pingBox, pongBox, tst, reply, pingsRecv,
                   sentQuiet, runq, running, budget, nonActVars>>

NextTest ==
    \/ PollSendSetPong
    \/ PollStartSleep
    \/ PollSendGetCounter
    \/ PollAssert
    \/ TickRun
    \/ RunHandleSetPong
    \/ RunHandlePing
    \/ RunHandlePong
    \/ RunHandleGetCounter
    \/ TaskPending
    \/ TickEnd
    \/ TimerFires

SpecTestRuntime == InitTest /\ [][NextTest]_vars

(* The runtime's thread keeps going as long as anything is left to do;
   nothing is once the test body has ended. *)
FairSpecTestRuntime == SpecTestRuntime /\ WF_vars(NextTest)

(* C12: started with counter = 0 and pong = None and given one SetPong,
   the exchange comes to rest with no Ping or Pong in flight and
   PingActor.counter = 10; the test's GetCounter is sent after that, it is
   answered with 10, and the test body returns without its assertion
   failing. *)
C12_QuiescesAtTen ==
    /\ <>[](Quiet /\ pong = "Some" /\ counter = 10)
    /\ [](tst \in {"awaitCounter", "done"} => sentQuiet /\ counter = 10)
    /\ [](tst = "done" => reply = 10)
    /\ [](phase # "panicked")
    /\ <>[](phase = "returned")

C12_Witness ==
    /\ phase = "returned"
    /\ tst = "done"
    /\ sentQuiet
    /\ reply = 10
    /\ Quiet
    /\ counter = 10

(* C19: PingActor.counter never exceeds 10; the Pings sent are the one of
   the SetPong handler plus one per Pong handled while the incremented
   counter is below 10, so none is sent once the counter is 10 and
   PongActor receives 10 in total; at most one Ping or Pong is in flight. *)
C19_PingPongBounds ==
    /\ counter <= 10
    /\ InFlight <= 1
    /\ pingsRecv + Len(pongBox)
          = IF pong = "None" THEN 0
            ELSE 1 + (IF counter < 9 THEN counter ELSE 9)
    /\ counter >= 10 => pongBox = <<>>
    /\ (Quiet /\ pong = "Some") => (pingsRecv = 10 /\ counter = 10)

C19_Witness ==
    /\ Quiet
    /\ pong = "Some"
    /\ counter = 10
    /\ pingsRecv = 10
    /\ tst = "done"
    /\ reply = 10

(***************************************************************************)
(* relaxed_ordering and acqrel_relaxed_ordering (memory_ordering.rs), run  *)
(* repeatedly the way their tests run them.                                *)
(*                                                                         *)
(* Memory model: every atomic has its modification order, mem[loc], a      *)
(* sequence of messages [val, vw]; every thread has a view, the position   *)
(* in each modification order it is known to have reached.  A load may     *)
(* read any message at or after the thread's view of the location (so a    *)
(* stale value can be read until something forces the newer one); a store  *)
(* appends a message.  A Release store puts the thread's view into the     *)
(* message and an Acquire load that reads it joins that view into the      *)
(* reader's; Relaxed operations transfer no view.  A read-modify-write     *)
(* reads the last message.  spawn gives the child the parent's view, join  *)
(* gives the parent the child's.                                           *)
(***************************************************************************)

(* number of calls the test makes; stands for the 100 of the tests *)
MaxRuns == 3

Locs == {"x", "y", "z"}
MoThreads == {"main", "t1", "t2", "t3", "t4"}

Max(u, v) == IF u >= v THEN u ELSE v

(* view before any store *)
View0 == [l \in Locs |-> 1]

ViewJoin(v1, v2) == [l \in Locs |-> Max(v1[l], v2[l])]

(* AtomicBool::new(false), AtomicBool::new(false), AtomicI32::new(0) *)
Mem0 ==
    [l \in Locs |->
        <<[val |-> IF l = "z" THEN 0 ELSE FALSE, vw |-> View0]>>]

(* positions of mem[loc] thread t may read *)
Readable(t, loc) == view[t][loc]..Len(mem[loc])

(* the view a load of message idx of loc leaves thread t with *)
ViewAfterLoad(t, loc, idx, ord) ==
    LET seenIdx == [view[t] EXCEPT ![loc] = idx]
    IN  IF ord = "Acquire" THEN ViewJoin(seenIdx, mem[loc][idx].vw)
        ELSE seenIdx

(* the view thread t has after appending a message to loc *)
ViewAfterStore(t, loc) == [view[t] EXCEPT ![loc] = Len(mem[loc]) + 1]

(* the message a store of v to loc by t appends *)
StoreMsg(t, loc, v, ord) ==
    [val |-> v,
     vw |-> IF ord = "Release" THEN ViewAfterStore(t, loc)
            ELSE [View0 EXCEPT ![loc] = Len(mem[loc]) + 1]]

(* the caller's steps, in order *)
MainSteps(fn) ==
    IF fn = "relaxed_ordering"
    THEN <<"spawn_t1", "spawn_t2", "join_t1", "join_t2", "load_x", "load_y">>
    ELSE <<"spawn_t1", "spawn_t2", "spawn_t3", "spawn_t4",
           "join_t1", "join_t2", "join_t3", "join_t4", "load_z">>

(* the step of the caller after step pcm *)
MainNext(fn, pcm) ==
    LET steps == MainSteps(fn)
        at == CHOOSE k \in 1..Len(steps) : steps[k] = pcm
    IN  IF at = Len(steps) THEN "return" ELSE steps[at + 1]

(* entry of the function: fresh atomics, no thread spawned *)
RunStart(fn) ==
    /\ mem' = Mem0
    /\ view' = [t \in MoThreads |-> View0]
    /\ mopc' = [t \in MoThreads |->
                  IF t = "main" THEN MainSteps(fn)[1] ELSE "unspawned"]
    /\ reg' = [t \in MoThreads |-> FALSE]

InitMo(fn) ==
    /\ MatIdle
    /\ CntIdle
    /\ ActIdle
    /\ mofn = fn
    /\ mem = Mem0
    /\ view = [t \in MoThreads |-> View0]
    /\ mopc = [t \in MoThreads |->
                 IF t = "main" THEN MainSteps(fn)[1] ELSE "unspawned"]
    /\ reg = [t \in MoThreads |-> FALSE]
    /\ seen = {}
    /\ runs = 0

(* first statement of the closure of thread t *)
FirstPc(fn, t) ==
    IF fn = "relaxed_ordering" THEN "load"
    ELSE IF t \in {"t1", "t2"} THEN "store" ELSE "spin"

(* thread::spawn(move || ...) *)
MoSpawn(t) ==
    /\ mopc["main"] = "spawn_" \o t
    /\ mopc' = [mopc EXCEPT !["main"] = MainNext(mofn, @),
                            ![t] = FirstPc(mofn, t)]
    /\ view' = [view EXCEPT ![t] = view["main"]]
    /\ UNCHANGED <<mofn, mem, reg, seen, runs, nonMoVars>>

(* tN.join().unwrap() *)
MoJoin(t) ==
    /\ mopc["main"] = "join_" \o t
    /\ mopc[t] = "done"
    /\ mopc' = [mopc EXCEPT !["main"] = MainNext(mofn, @)]
    /\ view' = [view EXCEPT !["main"] = ViewJoin(@, view[t])]
    /\ UNCHANGED <<mofn, mem, reg, seen, runs, nonMoVars>>

(* end of a call inside the test's (0..100).map(..): the result joins the
   collected results and the next call starts, if there is one *)
MoReturn(res) ==
    /\ seen' = seen \cup {res}
    /\ runs' = runs + 1
    /\ IF runs + 1 < MaxRuns
       THEN RunStart(mofn)
       ELSE /\ mopc' = [mopc EXCEPT !["main"] = "finished"]
            /\ UNCHANGED <<mem, view, reg>>
    /\ UNCHANGED <<mofn, nonMoVars>>

(***************************************************************************)
(* relaxed_ordering (lines 7-37).                                          *)
(***************************************************************************)

(* t1: let a = y.load(Ordering::Relaxed) *)
RelT1Load ==
    /\ mofn = "relaxed_ordering"
    /\ mopc["t1"] = "load"
    /\ \E idx \in Readable("t1", "y") :
          /\ reg' = [reg EXCEPT !["t1"] = mem["y"][idx].val]
          /\ view' = [view EXCEPT !["t1"] =
                        ViewAfterLoad("t1", "y", idx, "Relaxed")]
    /\ mopc' = [mopc EXCEPT !["t1"] = "store"]
    /\ UNCHANGED <<mofn, mem, seen, runs, nonMoVars>>

(* the value t1 stores to x, given the a it loaded *)
T1StoresFalse(a) == FALSE
T1Stores(a) == a

(* t1: x.store(a, Ordering::Relaxed) *)
RelT1Store ==
    /\ mofn = "relaxed_ordering"
    /\ mopc["t1"] = "store"
    /\ mem' = [mem EXCEPT !["x"] =
                 Append(@, StoreMsg("t1", "x", T1Stores(reg["t1"]),
                                    "Relaxed"))]
    /\ view' = [view EXCEPT !["t1"] = ViewAfterStore("t1", "x")]
    /\ mopc' = [mopc EXCEPT !["t1"] = "done"]
    /\ UNCHANGED <<mofn, reg, seen, runs, nonMoVars>>

(* t2: let _b = x.load(Ordering::Relaxed) *)
RelT2Load ==
    /\ mofn = "relaxed_ordering"
    /\ mopc["t2"] = "load"
    /\ \E idx \in Readable("t2", "x") :
          /\ reg' = [reg EXCEPT !["t2"] = mem["x"][idx].val]
          /\ view' = [view EXCEPT !["t2"] =
                        ViewAfterLoad("t2", "x", idx, "Relaxed")]
    /\ mopc' = [mopc EXCEPT !["t2"] = "store"]
    /\ UNCHANGED <<mofn, mem, seen, runs, nonMoVars>>

(* t2: y.store(true, Ordering::Relaxed) *)
RelT2Store ==
    /\ mofn = "relaxed_ordering"
    /\ mopc["t2"] = "store"
    /\ mem' = [mem EXCEPT !["y"] =
                 Append(@, StoreMsg("t2", "y", TRUE, "Relaxed"))]
    /\ view' = [view EXCEPT !["t2"] = ViewAfterStore("t2", "y")]
    /\ mopc' = [mopc EXCEPT !["t2"] = "done"]
    /\ UNCHANGED <<mofn, reg, seen, runs, nonMoVars>>

(* let final_x = x.load(Ordering::Relaxed) *)
RelLoadX ==
    /\ mofn = "relaxed_ordering"
    /\ mopc["main"] = "load_x"
    /\ \E idx \in Readable("main", "x") :
          /\ reg' = [reg EXCEPT !["main"] = mem["x"][idx].val]
          /\ view' = [view EXCEPT !["main"] =
                        ViewAfterLoad("main", "x", idx, "Relaxed")]
    /\ mopc' = [mopc EXCEPT !["main"] = MainNext(mofn, @)]
    /\ UNCHANGED <<mofn, mem, seen, runs, nonMoVars>>

(* let final_y = y.load(Ordering::Relaxed); (final_x, final_y) *)
RelLoadYReturn ==
    /\ mofn = "relaxed_ordering"
    /\ mopc["main"] = "load_y"
    /\ \E idx \in Readable("main", "y") :
          MoReturn(<<reg["main"], mem["y"][idx].val>>)

NextRelaxed ==
    \/ \E t \in {"t1", "t2"} : MoSpawn(t)
    \/ RelT1Load
    \/ RelT1Store
    \/ RelT2Load
    \/ RelT2Store
    \/ \E t \in {"t1", "t2"} : MoJoin(t)
    \/ RelLoadX
    \/ RelLoadYReturn

SpecRelaxed == InitMo("relaxed_ordering") /\ [][NextRelaxed]_vars

(***************************************************************************)
(* acqrel_relaxed_ordering (lines 39-88).                                  *)
(***************************************************************************)

(* the flag a writer sets and a reader spins on: t1 and t3 use x, t2 and
   t4 use y; a reader then tests the other flag *)
OwnFlag(t) == IF t \in {"t1", "t3"} THEN "x" ELSE "y"
OtherFlag(t) == IF t \in {"t1", "t3"} THEN "y" ELSE "x"

(* t1: x.store(true, Ordering::Release); t2: y.store(true, ..) *)
AcqStore(t) ==
    /\ mofn = "acqrel_relaxed_ordering"
    /\ t \in {"t1", "t2"}
    /\ mopc[t] = "store"
    /\ mem' = [mem EXCEPT ![OwnFlag(t)] =
                 Append(@, StoreMsg(t, OwnFlag(t), TRUE, "Release"))]
    /\ view' = [view EXCEPT ![t] = ViewAfterStore(t, OwnFlag(t))]
    /\ mopc' = [mopc EXCEPT ![t] = "done"]
    /\ UNCHANGED <<mofn, reg, seen, runs, nonMoVars>>

(* t3: while !x.load(Ordering::Acquire) {}; t4 with y: one evaluation of
   the loop condition *)
AcqSpin(t) ==
    /\ mofn = "acqrel_relaxed_ordering"
    /\ t \in {"t3", "t4"}
    /\ mopc[t] = "spin"
    /\ \E idx \in Readable(t, OwnFlag(t)) :
          /\ view' = [view EXCEPT ![t] =
                        ViewAfterLoad(t, OwnFlag(t), idx, "Acquire")]
          /\ mopc' = [mopc EXCEPT ![t] =
                        IF mem[OwnFlag(t)][idx].val THEN "test" ELSE "spin"]
    /\ UNCHANGED <<mofn, mem, reg, seen, runs, nonMoVars>>

(* t3: if y.load(Ordering::Acquire) { .. }; t4 with x *)
AcqTest(t) ==
    /\ mofn = "acqrel_relaxed_ordering"
    /\ t \in {"t3", "t4"}
    /\ mopc[t] = "test"
    /\ \E idx \in Readable(t, OtherFlag(t)) :
          /\ view' = [view EXCEPT ![t] =
                        ViewAfterLoad(t, OtherFlag(t), idx, "Acquire")]
          /\ reg' = [reg EXCEPT ![t] = mem[OtherFlag(t)][idx].val]
          /\ mopc' = [mopc EXCEPT ![t] =
                        IF mem[OtherFlag(t)][idx].val THEN "add" ELSE "done"]
    /\ UNCHANGED <<mofn, mem, seen, runs, nonMoVars>>

(* the value fetch_add(1) writes, given the value it read *)
FetchAddOverwrite(old) == 1
FetchAdd(old) == old + 1

(* z.fetch_add(1, Ordering::Relaxed): reads the last value of z *)
AcqAdd(t) ==
    /\ mofn = "acqrel_relaxed_ordering"
    /\ t \in {"t3", "t4"}
    /\ mopc[t] = "add"
    /\ LET last == mem["z"][Len(mem["z"])]
           msg == StoreMsg(t, "z", FetchAdd(last.val), "Relaxed")
       IN  mem' = [mem EXCEPT !["z"] =
                     Append(@, [msg EXCEPT !.vw = ViewJoin(@, last.vw)])]
    /\ view' = [view EXCEPT ![t] = ViewAfterStore(t, "z")]
    /\ mopc' = [mopc EXCEPT ![t] = "done"]
    /\ UNCHANGED <<mofn, reg, seen, runs, nonMoVars>>

(* z.load(Ordering::Acquire), the value returned *)
AcqLoadZReturn ==
    /\ mofn = "acqrel_relaxed_ordering"
    /\ mopc["main"] = "load_z"
    /\ \E idx \in Readable("main", "z") : MoReturn(mem["z"][idx].val)

NextAcqRel ==
    \/ \E t \in {"t1", "t2", "t3", "t4"} : MoSpawn(t)
    \/ \E t \in {"t1", "t2"} : AcqStore(t)
    \/ \E t \in {"t3", "t4"} : AcqSpin(t)
    \/ \E t \in {"t3", "t4"} : AcqTest(t)
    \/ \E t \in {"t3", "t4"} : AcqAdd(t)
    \/ \E t \in {"t1", "t2", "t3", "t4"} : MoJoin(t)
    \/ AcqLoadZReturn

SpecAcqRel == InitMo("acqrel_relaxed_ordering") /\ [][NextAcqRel]_vars

(* C13: relaxed_ordering has no single fixed outcome.  Every result is
   (final_x, true) where final_x is the value t1 loaded from y, and that
   load can read either false or t2's true; the witness is a run of the
   test in which two calls returned different pairs. *)
C13_ResultFollowsT1Load ==
    /\ seen \subseteq {<<FALSE, TRUE>>, <<TRUE, TRUE>>}
    /\ mopc["main"] = "load_y" =>
          /\ reg["main"] = reg["t1"]
          /\ view["main"]["y"] = Len(mem["y"])
          /\ mem["y"][Len(mem["y"])].val = TRUE
    /\ (mopc["t1"] \in {"store", "done"} /\ reg["t1"] = TRUE) =>
          mopc["t2"] = "done"

C13_Witness ==
    /\ mofn = "relaxed_ordering"
    /\ seen = {<<FALSE, TRUE>>, <<TRUE, TRUE>>}

(* readers whose test of the other flag succeeded and whose fetch_add has
   been done *)
Adders == {t \in {"t3", "t4"} : mopc[t] = "done" /\ reg[t] = TRUE}

(* C14: acqrel_relaxed_ordering can return 2 and can return 1.  Every
   result is the number of readers that found the other flag set, between
   0 and 2, no fetch_add being lost; the witness is a run of the test in
   which one call returned 2 and another returned 1. *)
C14_ResultCountsAdders ==
    /\ seen \subseteq {0, 1, 2}
    /\ mofn = "acqrel_relaxed_ordering" =>
          mem["z"][Len(mem["z"])].val = Cardinality(Adders)
    /\ mopc["main"] = "load_z" => view["main"]["z"] = Len(mem["z"])

C14_Witness ==
    /\ mofn = "acqrel_relaxed_ordering"
    /\ {1, 2} \subseteq seen

====
